---------------------------- MODULE Spec2Model ----------------------------
(***************************************************************************)
(* Model of streamlit_app.py: the AVANA e-mail extraction tool.            *)
(*                                                                         *)
(* A Python str is a sequence of code points (Naturals); every string the  *)
(* pipeline handles is ASCII, because the address pattern only matches     *)
(* ASCII.  A Streamlit script is re-run from the top on every widget       *)
(* interaction; the widgets' values (raw_text, max_per_domain, role_input) *)
(* survive a re-run, the script's locals do not.                           *)
(***************************************************************************)
EXTENDS Integers, Sequences, FiniteSets, TLC

VARIABLES
    raw_text,        \* st.text_area value
    max_per_domain,  \* st.slider value
    role_input,      \* st.text_input value
    notice,          \* what the results column shows: "info" (no click),
                     \* "enter_data" (st.warning), "results", "no_valid_emails" (st.error)
    found_emails,    \* re.findall result of the run
    seen,            \* set of lower-cased addresses already met
    unique_emails,   \* de-duplicated, lower-cased addresses
    domain_map,      \* domain -> list of its addresses
    domain_order,    \* domains in first-seen order
    final_selection, \* rows {Domain, Email, Type}
    skipped_emails,  \* addresses that were cut
    firstRun         \* history: inputs and outcome of the first run of the session

widgets == <<raw_text, max_per_domain, role_input>>
vars    == <<raw_text, max_per_domain, role_input, notice, found_emails, seen,
             unique_emails, domain_map, domain_order, final_selection,
             skipped_emails, firstRun>>

---------------------------------------------------------------------------
(* Bounds of the model *)

\* how many fragments a pasted text is made of
MaxTokens == 3
\* largest slider position explored besides the default and the maximum
MaxCap == 3

---------------------------------------------------------------------------
(* Characters and strings *)

At    == 64
Dot   == 46
Comma == 44

Min(a, b) == IF a <= b THEN a ELSE b
Max(a, b) == IF a >= b THEN a ELSE b

SetMin(S) == CHOOSE x \in S : \A y \in S : x <= y
SetMax(S) == CHOOSE x \in S : \A y \in S : x >= y

Range(s) == {s[i] : i \in 1..Len(s)}

IsUpperChar(c) == c \in 65..90
Letters == (65..90) \cup (97..122)
Digits  == 48..57
\* [a-zA-Z0-9._%+-]
LocalChars  == Letters \cup Digits \cup {46, 95, 37, 43, 45}
\* [a-zA-Z0-9.-]
DomainChars == Letters \cup Digits \cup {46, 45}
\* str.strip() strips these
IsWhitespace(c) == c \in {32, 9, 10, 11, 12, 13}

\* str.lower() on ASCII
LowerChar(c) == IF IsUpperChar(c) THEN c + 32 ELSE c
Lower(s)     == [i \in 1..Len(s) |-> LowerChar(s[i])]

\* s.split(sep) for a one-character separator: the list of the pieces
RECURSIVE SplitFrom(_, _, _, _)
SplitFrom(s, sep, i, piece) ==
    IF i > Len(s) THEN <<piece>>
    ELSE IF s[i] = sep THEN <<piece>> \o SplitFrom(s, sep, i + 1, <<>>)
    ELSE SplitFrom(s, sep, i + 1, Append(piece, s[i]))

Split(s, sep) == SplitFrom(s, sep, 1, <<>>)

\* str.strip()
Strip(s) ==
    LET keep == {i \in 1..Len(s) : ~IsWhitespace(s[i])}
    IN  IF keep = {} THEN <<>> ELSE SubSeq(s, SetMin(keep), SetMax(keep))

\* k in s, for strings
Contains(s, k) ==
    \E i \in 1..(Len(s) - Len(k) + 1) : SubSeq(s, i, i + Len(k) - 1) = k

\* a < b, for strings (code point order, a proper prefix is smaller)
RECURSIVE StrLess(_, _)
StrLess(a, b) ==
    IF b = <<>> THEN FALSE
    ELSE IF a = <<>> THEN TRUE
    ELSE IF a[1] # b[1] THEN a[1] < b[1]
    ELSE StrLess(Tail(a), Tail(b))

\* lst[:n + 1]: the slice that keeps one element too many
SliceToInclusive(lst, n) == SubSeq(lst, 1, Min(n + 1, Len(lst)))

\* lst[:n], negative n counting from the end
SliceTo(lst, n) ==
    IF n >= 0 THEN SubSeq(lst, 1, Min(n, Len(lst)))
    ELSE SubSeq(lst, 1, Max(0, Len(lst) + n))

---------------------------------------------------------------------------
(* The address pattern  [a-zA-Z0-9._%+-]+@[a-zA-Z0-9.-]+\.[a-zA-Z]{2,}    *)

\* first position >= i whose character is not in the class (Len + 1 if none)
RunEnd(t, i, class) ==
    LET out == {j \in i..Len(t) : t[j] \notin class}
    IN  IF out = {} THEN Len(t) + 1 ELSE SetMin(out)

\* re.match of the pattern at position i: the position after the match, 0 if
\* there is none.  The greedy local part must stop at the '@'; the greedy
\* domain part backtracks to the last '.' that two or more letters follow.
MatchEnd(t, i) ==
    LET p == RunEnd(t, i, LocalChars)
    IN  IF p = i \/ p > Len(t) \/ t[p] # At THEN 0
        ELSE LET r    == RunEnd(t, p + 1, DomainChars)
                 dots == {e \in (p + 2)..(r - 1) :
                            /\ t[e] = Dot
                            /\ RunEnd(t, e + 1, Letters) - (e + 1) >= 2}
             IN  IF dots = {} THEN 0
                 ELSE RunEnd(t, SetMax(dots) + 1, Letters)

\* re.findall: non-overlapping matches, left to right
RECURSIVE FindAllFrom(_, _)
FindAllFrom(t, i) ==
    IF i > Len(t) THEN <<>>
    ELSE LET m == MatchEnd(t, i)
         IN  IF m = 0 THEN FindAllFrom(t, i + 1)
             ELSE <<SubSeq(t, i, m - 1)>> \o FindAllFrom(t, m)

FindAll(t) == FindAllFrom(t, 1)

---------------------------------------------------------------------------
(* Role keywords *)

RECURSIVE StripLowerNonEmpty(_)
StripLowerNonEmpty(pieces) ==
    IF pieces = <<>> THEN <<>>
    ELSE LET k == Strip(Head(pieces))
         IN  (IF k = <<>> THEN <<>> ELSE <<Lower(k)>>)
                \o StripLowerNonEmpty(Tail(pieces))

ParseKeywords(text) == StripLowerNonEmpty(Split(text, Comma))

keywords == ParseKeywords(role_input)

\* the counter under the text area: len(set(e.lower() for e in temp_found)),
\* 0 for an empty text
total_raw_detected ==
    Cardinality({Lower(e) : e \in Range(FindAll(raw_text))})

---------------------------------------------------------------------------
(* 1. Extraction *)

\* the loop with the membership test and seen.add on e instead of e_low
RECURSIVE DedupLoopCaseSensitive(_, _, _)
DedupLoopCaseSensitive(found, seen0, unique0) ==
    IF found = <<>> THEN [seen |-> seen0, unique_emails |-> unique0]
    ELSE LET e     == Head(found)
             e_low == Lower(e)
         IN  IF e \notin seen0
             THEN DedupLoopCaseSensitive(Tail(found), seen0 \cup {e},
                                         Append(unique0, e_low))
             ELSE DedupLoopCaseSensitive(Tail(found), seen0, unique0)

\* the loop over found_emails, from the loop's state (seen, unique_emails)
RECURSIVE DedupLoop(_, _, _)
DedupLoop(found, seen0, unique0) ==
    IF found = <<>> THEN [seen |-> seen0, unique_emails |-> unique0]
    ELSE LET e_low == Lower(Head(found))
         IN  IF e_low \notin seen0
             THEN DedupLoop(Tail(found), seen0 \cup {e_low}, Append(unique0, e_low))
             ELSE DedupLoop(Tail(found), seen0, unique0)

---------------------------------------------------------------------------
(* 2. Grouping by domain *)

EmptyMap == [d \in {} |-> <<>>]

\* the loop without "if domain not in domain_map": every address appends its
\* domain to domain_order
RECURSIVE GroupLoopNoCheck(_, _, _)
GroupLoopNoCheck(emails, map0, order0) ==
    IF emails = <<>> THEN [domain_map |-> map0, domain_order |-> order0]
    ELSE LET email  == Head(emails)
             pieces == Split(email, At)
         IN  IF Len(pieces) < 2 THEN GroupLoopNoCheck(Tail(emails), map0, order0)
             ELSE LET domain == pieces[2]
                      old    == IF domain \in DOMAIN map0 THEN map0[domain] ELSE <<>>
                      map1   == [d \in DOMAIN map0 \cup {domain} |->
                                    IF d = domain THEN Append(old, email)
                                    ELSE map0[d]]
                  IN  GroupLoopNoCheck(Tail(emails), map1, Append(order0, domain))

\* the loop over unique_emails; an address without '@' raises IndexError and
\* is skipped
RECURSIVE GroupLoop(_, _, _)
GroupLoop(emails, map0, order0) ==
    IF emails = <<>> THEN [domain_map |-> map0, domain_order |-> order0]
    ELSE LET email  == Head(emails)
             pieces == Split(email, At)
         IN  IF Len(pieces) < 2 THEN GroupLoop(Tail(emails), map0, order0)
             ELSE LET domain == pieces[2]
                      isNew  == domain \notin DOMAIN map0
                      order1 == IF isNew THEN Append(order0, domain) ELSE order0
                      old    == IF isNew THEN <<>> ELSE map0[domain]
                      map1   == [d \in DOMAIN map0 \cup {domain} |->
                                    IF d = domain THEN Append(old, email)
                                    ELSE map0[d]]
                  IN  GroupLoop(Tail(emails), map1, order1)

---------------------------------------------------------------------------
(* 3. Selection *)

LocalPart(e) == Split(e, At)[1]

\* any(k in e for k in keywords): the whole address searched
IsPriorityWholeAddress(e, kws) == \E i \in 1..Len(kws) : Contains(e, kws[i])

\* any(k in local_part for k in keywords)
IsPriority(e, kws) == \E i \in 1..Len(kws) : Contains(LocalPart(e), kws[i])

Priority(emails, kws) == SelectSeq(emails, LAMBDA e : IsPriority(e, kws))
Others(emails, kws)   == SelectSeq(emails, LAMBDA e : ~IsPriority(e, kws))

\* list.sort is stable: an element goes behind every element whose key is
\* not greater than its own

\* others.sort()
RECURSIVE InsertLex(_, _)
InsertLex(sorted, e) ==
    IF sorted = <<>> THEN <<e>>
    ELSE IF StrLess(e, Head(sorted)) THEN <<e>> \o sorted
    ELSE <<Head(sorted)>> \o InsertLex(Tail(sorted), e)

RECURSIVE SortOthers(_)
SortOthers(others) ==
    IF others = <<>> THEN <<>>
    ELSE InsertLex(SortOthers(SubSeq(others, 1, Len(others) - 1)),
                   others[Len(others)])

\* priority.sort(key=len)
RECURSIVE InsertByLen(_, _)
InsertByLen(sorted, e) ==
    IF sorted = <<>> THEN <<e>>
    ELSE IF Len(e) < Len(Head(sorted)) THEN <<e>> \o sorted
    ELSE <<Head(sorted)>> \o InsertByLen(Tail(sorted), e)

\* priority.sort(): the key forgotten
SortPriorityNoKey(priority) == SortOthers(priority)

RECURSIVE SortPriority(_)
SortPriority(priority) ==
    IF priority = <<>> THEN <<>>
    ELSE InsertByLen(SortPriority(SubSeq(priority, 1, Len(priority) - 1)),
                     priority[Len(priority)])

\* (priority + others)[:max_per_domain]
TopSelection(priority, others, cap) ==
    SliceTo(SortPriority(priority) \o SortOthers(others), cap)

TypeTag(s, priority) == IF s \in Range(priority) THEN "Match" ELSE "General"

Rows(domain, top_selection, priority) ==
    [i \in 1..Len(top_selection) |->
        [Domain |-> domain, Email |-> top_selection[i],
         Type |-> TypeTag(top_selection[i], priority)]]

\* the test inverted: if e in top_set
TrackSkippedInverted(emails, top_set) == SelectSeq(emails, LAMBDA e : e \in top_set)

\* the skipped taken from the sorted list instead of the domain's own list
TrackSkippedSorted(emails, top_set) ==
    SelectSeq(SortOthers(emails), LAMBDA e : e \notin top_set)

\* for e in emails: if e not in top_set
TrackSkipped(emails, top_set) == SelectSeq(emails, LAMBDA e : e \notin top_set)

\* the loop over domain_order
RECURSIVE SelectLoop(_, _, _, _, _, _)
SelectLoop(order, map, kws, cap, selection0, skipped0) ==
    IF order = <<>>
    THEN [final_selection |-> selection0, skipped_emails |-> skipped0]
    ELSE LET domain        == Head(order)
             emails        == map[domain]
             priority      == Priority(emails, kws)
             others        == Others(emails, kws)
             top_selection == TopSelection(priority, others, cap)
             top_set       == Range(top_selection)
         IN  SelectLoop(Tail(order), map, kws, cap,
                        selection0 \o Rows(domain, top_selection, priority),
                        skipped0 \o TrackSkipped(emails, top_set))


\* the extraction step with seen kept from the run before
ExtractionStale(text) ==
    LET found == FindAll(text)
        loop  == DedupLoop(found, seen, <<>>)
    IN  [found_emails |-> found, seen |-> loop.seen,
         unique_emails |-> loop.unique_emails]

\* the extraction step: findall, then the loop from seen = set(), unique_emails = []
Extraction(text) ==
    LET found == FindAll(text)
        loop  == DedupLoop(found, {}, <<>>)
    IN  [found_emails |-> found, seen |-> loop.seen,
         unique_emails |-> loop.unique_emails]

\* the grouping step, from an empty defaultdict and an empty domain_order
Grouping(emails) == GroupLoop(emails, EmptyMap, <<>>)

\* the selection step, from final_selection = [] and skipped_emails = []
Selection(order, map, kws, cap) == SelectLoop(order, map, kws, cap, <<>>, <<>>)

\* the results shown whether or not anything was selected
DisplayAlways(selection) == "results"

\* if final_selection: (metrics, tables) else: st.error("No valid emails found ...")
Display(selection) == IF selection # <<>> THEN "results" ELSE "no_valid_emails"

\* the body of the else branch of the button handler
Pipeline(text, cap, kws) ==
    LET ex  == Extraction(text)
        gr  == Grouping(ex.unique_emails)
        sel == Selection(gr.domain_order, gr.domain_map, kws, cap)
    IN  [found_emails    |-> ex.found_emails,
         seen            |-> ex.seen,
         unique_emails   |-> ex.unique_emails,
         domain_map      |-> gr.domain_map,
         domain_order    |-> gr.domain_order,
         final_selection |-> sel.final_selection,
         skipped_emails  |-> sel.skipped_emails,
         notice          |-> Display(sel.final_selection)]

---------------------------------------------------------------------------
(* Inputs *)

SliderMin     == 1
SliderMax     == 200
SliderDefault == 5

\* "ceo, founder, cto, cfo, president, director, lead, manager, vp"
default_roles ==
    <<99, 101, 111, 44, 32, 102, 111, 117, 110, 100, 101, 114, 44, 32,
    99, 116, 111, 44, 32, 99, 102, 111, 44, 32, 112, 114, 101, 115, 105,
    100, 101, 110, 116, 44, 32, 100, 105, 114, 101, 99, 116, 111, 114,
    44, 32, 108, 101, 97, 100, 44, 32, 109, 97, 110, 97, 103, 101, 114,
    44, 32, 118, 112>>

\* what the user types into the role filter: the default, "" and " CTO, ,ceo,al"
RoleInputs == {default_roles,
               <<>>,
               <<32, 67, 84, 79, 44, 32, 44, 99, 101, 111, 44, 97, 108>>}

\* fragments the user pastes into the text area:
\*   "ceo@x.co"   "cto@x.co"   "Bob@X.co;al@x.co;bob@x.co"
\*   "marceo@ceo.io pat@ceo.io"   "Dan@y.io.x"   "n/a @x.co a@b"
Tokens == {<<99, 101, 111, 64, 120, 46, 99, 111>>,
           <<99, 116, 111, 64, 120, 46, 99, 111>>,
           <<66, 111, 98, 64, 88, 46, 99, 111, 59, 97, 108, 64, 120, 46,
             99, 111, 59, 98, 111, 98, 64, 120, 46, 99, 111>>,
           <<109, 97, 114, 99, 101, 111, 64, 99, 101, 111, 46, 105, 111,
             32, 112, 97, 116, 64, 99, 101, 111, 46, 105, 111>>,
           <<68, 97, 110, 64, 121, 46, 105, 111, 46, 120>>,
           <<110, 47, 97, 32, 64, 120, 46, 99, 111, 32, 97, 64, 98>>}

\* a fragment pasted at the end of the text, on a line of its own
PasteAfter(text, tok) == IF text = <<>> THEN tok ELSE text \o <<10>> \o tok

\* the texts made of at most n fragments
RECURSIVE TextsOver(_, _)
TextsOver(toks, n) ==
    IF n = 0 THEN {<<>>}
    ELSE LET shorter == TextsOver(toks, n - 1)
         IN  shorter \cup {PasteAfter(x, tok) : x \in shorter, tok \in toks}

Texts == TextsOver(Tokens, MaxTokens)

\* slider positions: the low ones, the default and the maximum
SliderValues ==
    {v \in SliderMin..SliderMax : v <= MaxCap \/ v = SliderDefault \/ v = SliderMax}

---------------------------------------------------------------------------
(* The session *)

\* firstRun is a history variable: the script has no such state.  It is
\* None until the first click.
None == [run |-> FALSE]

\* a re-run of the script binds none of the handler's locals
Unbound ==
    /\ found_emails = <<>>
    /\ seen = {}
    /\ unique_emails = <<>>
    /\ domain_map = EmptyMap
    /\ domain_order = <<>>
    /\ final_selection = <<>>
    /\ skipped_emails = <<>>

Unbind ==
    /\ found_emails' = <<>>
    /\ seen' = {}
    /\ unique_emails' = <<>>
    /\ domain_map' = EmptyMap
    /\ domain_order' = <<>>
    /\ final_selection' = <<>>
    /\ skipped_emails' = <<>>

Init ==
    /\ raw_text = <<>>
    /\ max_per_domain = SliderDefault
    /\ role_input = default_roles
    /\ notice = "info"
    /\ Unbound
    /\ firstRun = None

\* a widget changed: the script re-runs, the button reads False
\* (st.info("Results and skipped emails will appear here ..."))
RerunWithoutClick ==
    /\ notice' = "info"
    /\ Unbind

PasteToken(texts) ==
    /\ \E tok \in Tokens :
          /\ PasteAfter(raw_text, tok) \in texts
          /\ raw_text' = PasteAfter(raw_text, tok)
    /\ UNCHANGED <<max_per_domain, role_input>>
    /\ RerunWithoutClick
    /\ UNCHANGED firstRun

ClearText ==
    /\ raw_text # <<>>
    /\ raw_text' = <<>>
    /\ UNCHANGED <<max_per_domain, role_input>>
    /\ RerunWithoutClick
    /\ UNCHANGED firstRun

MoveSlider(positions) ==
    /\ \E v \in positions \ {max_per_domain} : max_per_domain' = v
    /\ UNCHANGED <<raw_text, role_input>>
    /\ RerunWithoutClick
    /\ UNCHANGED firstRun

EditRoles(inputs) ==
    /\ \E r \in inputs \ {role_input} : role_input' = r
    /\ UNCHANGED <<raw_text, max_per_domain>>
    /\ RerunWithoutClick
    /\ UNCHANGED firstRun

\* st.button("Run Extraction") reads True; an empty text gets
\* st.warning("Please enter some email data to process.")
RunExtraction ==
    /\ UNCHANGED widgets
    /\ IF raw_text = <<>>
       THEN /\ notice' = "enter_data"
            /\ Unbind
       ELSE \E run \in {Pipeline(raw_text, max_per_domain, keywords)} :
                /\ found_emails' = run.found_emails
                /\ seen' = run.seen
                /\ unique_emails' = run.unique_emails
                /\ domain_map' = run.domain_map
                /\ domain_order' = run.domain_order
                /\ final_selection' = run.final_selection
                /\ skipped_emails' = run.skipped_emails
                /\ notice' = run.notice

\* the page keeps nothing of a run
Click == RunExtraction /\ UNCHANGED firstRun

Next ==
    \/ PasteToken(Texts)
    \/ ClearText
    \/ MoveSlider(SliderValues)
    \/ EditRoles(RoleInputs)
    \/ Click

Spec == Init /\ [][Next]_vars

---------------------------------------------------------------------------
(* The handler fed directly: the widgets' values are drawn at the start,    *)
(* the cap also from outside the slider's range, and the button is clicked. *)

CoreCaps == ((SliderMin - 2)..MaxCap) \cup {SliderMax, SliderMax + 1}

InitCore ==
    /\ raw_text \in Texts
    /\ max_per_domain \in CoreCaps
    /\ role_input \in RoleInputs
    /\ notice = "info"
    /\ Unbound
    /\ firstRun = None

NextCore == Click

SpecCore == InitCore /\ [][NextCore]_vars

---------------------------------------------------------------------------
(* The session with its first run remembered, over a smaller set of inputs *)

\* "ceo@x.co"   "Bob@X.co;al@x.co;bob@x.co"   "n/a @x.co a@b"
RunTokens == {<<99, 101, 111, 64, 120, 46, 99, 111>>,
              <<66, 111, 98, 64, 88, 46, 99, 111, 59, 97, 108, 64, 120, 46,
                99, 111, 59, 98, 111, 98, 64, 120, 46, 99, 111>>,
              <<110, 47, 97, 32, 64, 120, 46, 99, 111, 32, 97, 64, 98>>}

RunTexts == TextsOver(RunTokens, MaxTokens - 1)

RunSliderValues == {SliderMin, SliderDefault}

RunRoleInputs == {default_roles, <<>>}

\* what a run hands to the page: the notice, the rows, the skipped list and
\* the three metrics
Outcome ==
    [notice |-> notice, selected |-> final_selection, skipped |-> skipped_emails,
     counts |-> <<Len(unique_emails), Len(final_selection), Len(skipped_emails)>>]

\* the first click records its inputs and outcome; a later click notes
\* whether it ran on other inputs
Remember ==
    firstRun' =
        IF ~firstRun.run
        THEN [run |-> TRUE, inputs |-> widgets, outcome |-> Outcome', others |-> FALSE]
        ELSE [firstRun EXCEPT !.others = @ \/ widgets # firstRun.inputs]

ClickRemembered == RunExtraction /\ Remember

NextRuns ==
    \/ PasteToken(RunTexts)
    \/ ClearText
    \/ MoveSlider(RunSliderValues)
    \/ EditRoles(RunRoleInputs)
    \/ ClickRemembered

SpecRuns == Init /\ [][NextRuns]_vars

---------------------------------------------------------------------------
(* Vocabulary of the properties *)

\* the button was clicked in the script run that rendered this page
clicked == notice # "info"
\* ... and the text was not empty, so the pipeline ran
ran == notice \in {"results", "no_valid_emails"}

DomainOf(e) == Split(e, At)[2]

\* index of the first occurrence
Position(lst, x) == SetMin({i \in 1..Len(lst) : lst[i] = x})

\* the addresses selected for a domain, in the order of final_selection
SelectedSeq(d) ==
    LET rows == SelectSeq(final_selection, LAMBDA r : r.Domain = d)
    IN  [i \in 1..Len(rows) |-> rows[i].Email]

SkippedSeq(d) == SelectSeq(skipped_emails, LAMBDA e : DomainOf(e) = d)

Domains == Range(domain_order)

InRange(cap) == cap \in SliderMin..SliderMax

---------------------------------------------------------------------------
(* Properties *)

\* C1: after a run, for every domain of domain_order the addresses selected
\* for it and the addresses skipped for it are disjoint, and together they
\* are exactly the addresses grouped under the domain.
C1_PartitionComplete ==
    (ran /\ InRange(max_per_domain)) =>
        \A d \in Domains :
            \E sel \in {Range(SelectedSeq(d))}, skp \in {Range(SkippedSeq(d))} :
                /\ sel \cap skp = {}
                /\ sel \cup skp = Range(domain_map[d])

\* a domain that was cut: some of its addresses selected, some skipped
C1_Witness ==
    /\ ran
    /\ \E d \in Domains : SelectedSeq(d) # <<>> /\ SkippedSeq(d) # <<>>

\* C2: after a run, no domain has more than max_per_domain rows in
\* final_selection.
C2_CapRespected ==
    (ran /\ InRange(max_per_domain)) =>
        \A d \in Domains : Len(SelectedSeq(d)) <= max_per_domain

\* a domain with more addresses than the cap, filled up to the cap
C2_Witness ==
    /\ ran
    /\ \E d \in Domains :
          /\ Len(domain_map[d]) > max_per_domain
          /\ Len(SelectedSeq(d)) = max_per_domain

\* C3: for a domain with at least max_per_domain priority addresses, the
\* selected addresses are all priority addresses, in non-decreasing length,
\* and of two of the same length the one grouped first comes first.
C3_PriorityPrecedence ==
    (ran /\ InRange(max_per_domain)) =>
        \A d \in Domains :
            \E sel \in {SelectedSeq(d)} :
                Len(Priority(domain_map[d], keywords)) >= max_per_domain =>
                    /\ \A i \in 1..Len(sel) : IsPriority(sel[i], keywords)
                    /\ \A i, j \in 1..Len(sel) :
                          i < j =>
                             /\ Len(sel[i]) <= Len(sel[j])
                             /\ Len(sel[i]) = Len(sel[j]) =>
                                   Position(domain_map[d], sel[i])
                                      < Position(domain_map[d], sel[j])

\* such a domain where sorting moved a shorter address forward and left two
\* of equal length in first-seen order, against their alphabetical order
C3_Witness ==
    /\ ran
    /\ \E d \in Domains :
          \E sel \in {SelectedSeq(d)} :
             /\ Len(Priority(domain_map[d], keywords)) >= max_per_domain
             /\ \E i, j \in 1..Len(sel) :
                   /\ i < j
                   /\ Len(sel[i]) = Len(sel[j])
                   /\ StrLess(sel[j], sel[i])
             /\ \E i, j \in 1..Len(sel) :
                   /\ i < j
                   /\ Len(sel[i]) < Len(sel[j])
                   /\ Position(domain_map[d], sel[i]) > Position(domain_map[d], sel[j])

\* C4: unique_emails holds only lower-cased strings, no value twice, the
\* lower-cased form of every detected address, in the order of the first
\* occurrence of each value in found_emails.
C4_Dedup ==
    ran =>
        /\ \A i \in 1..Len(unique_emails) : unique_emails[i] = Lower(unique_emails[i])
        /\ \A i, j \in 1..Len(unique_emails) :
              i # j => unique_emails[i] # unique_emails[j]
        /\ Range(unique_emails) = {Lower(found_emails[k]) : k \in 1..Len(found_emails)}
        /\ \A i, j \in 1..Len(unique_emails) :
              i < j =>
                 SetMin({k \in 1..Len(found_emails) :
                            Lower(found_emails[k]) = unique_emails[i]})
                  < SetMin({k \in 1..Len(found_emails) :
                            Lower(found_emails[k]) = unique_emails[j]})

\* two detected addresses that differ only in case, and another address
C4_Witness ==
    /\ ran
    /\ Len(unique_emails) >= 2
    /\ \E i, j \in 1..Len(found_emails) :
          /\ found_emails[i] # found_emails[j]
          /\ Lower(found_emails[i]) = Lower(found_emails[j])

\* C5: domain_order lists each domain once, in the order of the domains'
\* first addresses in unique_emails; each listed domain has a non-empty
\* group and every unique address is in exactly one group.
C5_DomainOrder ==
    ran =>
        /\ \A i, j \in 1..Len(domain_order) :
              i # j => domain_order[i] # domain_order[j]
        /\ Domains = {DomainOf(u) : u \in Range(unique_emails)}
        /\ \A i, j \in 1..Len(domain_order) :
              i < j =>
                 SetMin({k \in 1..Len(unique_emails) :
                            DomainOf(unique_emails[k]) = domain_order[i]})
                  < SetMin({k \in 1..Len(unique_emails) :
                            DomainOf(unique_emails[k]) = domain_order[j]})
        /\ \A d \in Domains : d \in DOMAIN domain_map /\ domain_map[d] # <<>>
        /\ \A u \in Range(unique_emails) :
              Cardinality({d \in DOMAIN domain_map : u \in Range(domain_map[d])}) = 1

\* two domains met in an order that is not the alphabetical one, one of them
\* with several addresses
C5_Witness ==
    /\ ran
    /\ Len(domain_order) >= 2
    /\ StrLess(domain_order[2], domain_order[1])
    /\ \E d \in Domains : Len(domain_map[d]) >= 2

C7_NoAddressNotice ==
    (clicked /\ FindAll(raw_text) = <<>>) =>
        /\ final_selection = <<>>
        /\ skipped_emails = <<>>
        /\ Len(unique_emails) = 0
        /\ notice = "no_valid_emails"

\* C7 amended: ... and the "no valid emails" notice when the text is not
\* empty, the "enter some email data" warning when it is empty.
C7_NoAddressOutcome ==
    (clicked /\ FindAll(raw_text) = <<>>) =>
        /\ final_selection = <<>>
        /\ skipped_emails = <<>>
        /\ Len(unique_emails) = 0
        /\ notice = IF raw_text = <<>> THEN "enter_data" ELSE "no_valid_emails"

\* a run on a text that is not empty and holds no address
C7_Witness ==
    /\ clicked
    /\ raw_text # <<>>
    /\ FindAll(raw_text) = <<>>

\* C8: a run with the widgets as they were at the session's first run has
\* the outcome of that first run, whatever ran in between.
C8_RunIndependent ==
    (firstRun.run /\ clicked /\ widgets = firstRun.inputs) =>
        Outcome = firstRun.outcome

\* the first run's inputs run again after a run on other inputs, with
\* addresses selected and addresses skipped
C8_Witness ==
    /\ firstRun.run
    /\ firstRun.others
    /\ clicked
    /\ widgets = firstRun.inputs
    /\ final_selection # <<>>
    /\ skipped_emails # <<>>

\* C9: skipped_emails goes domain by domain in domain_order, and within a
\* domain in the order of the domain's group.
C9_SkippedOrder ==
    ran =>
        \A i, j \in 1..Len(skipped_emails) :
            i < j =>
                \E di \in {DomainOf(skipped_emails[i])}, dj \in {DomainOf(skipped_emails[j])} :
                    \/ Position(domain_order, di) < Position(domain_order, dj)
                    \/ /\ di = dj
                       /\ Position(domain_map[di], skipped_emails[i])
                            < Position(domain_map[di], skipped_emails[j])

\* two skipped addresses of one domain whose first-seen order is not the
\* alphabetical one, and skipped addresses of two domains
C9_Witness ==
    /\ ran
    /\ \E i, j \in 1..Len(skipped_emails) :
          /\ i < j
          /\ DomainOf(skipped_emails[i]) = DomainOf(skipped_emails[j])
          /\ StrLess(skipped_emails[j], skipped_emails[i])
    /\ \E i, j \in 1..Len(skipped_emails) :
          /\ i < j
          /\ DomainOf(skipped_emails[i]) # DomainOf(skipped_emails[j])

\* C10: a row is tagged "Match" exactly when some keyword is a substring of
\* the part of its address before the '@'.
C10_TypeTag ==
    ran =>
        \A n \in 1..Len(final_selection) :
            \E row \in {final_selection[n]} :
                /\ row.Type \in {"Match", "General"}
                /\ row.Type = "Match" <=>
                      \E k \in 1..Len(keywords) :
                          Contains(SubSeq(row.Email, 1, Position(row.Email, At) - 1),
                                   keywords[k])

\* a "General" row whose domain holds a keyword, beside a "Match" row whose
\* local part holds a keyword inside a longer word
C10_Witness ==
    /\ ran
    /\ \E n \in 1..Len(final_selection) :
          /\ final_selection[n].Type = "General"
          /\ \E k \in 1..Len(keywords) :
                Contains(DomainOf(final_selection[n].Email), keywords[k])
    /\ \E n \in 1..Len(final_selection) :
          /\ final_selection[n].Type = "Match"
          /\ \A k \in 1..Len(keywords) :
                Contains(LocalPart(final_selection[n].Email), keywords[k]) =>
                    LocalPart(final_selection[n].Email) # keywords[k]

============================================================================
